---- MODULE Spec2Model ----
(***************************************************************************)
(* Model of sharpy/solvers/steplinearuvlm.py (StepLinearUVLM): the         *)
(* packing of per-surface grids into the input/state vectors, the          *)
(* unpacking of the output/state vectors, and the initialise / run /       *)
(* add_step life cycle around the linear UVLM operator.                    *)
(*                                                                         *)
(* Numbers are integers.  The time increment dt is the rational            *)
(* dt.num / dt.den; circulation rates are kept on the grid of multiples of *)
(* dt.den so that dt * gamma_dot is exact.                                 *)
(***************************************************************************)
EXTENDS Integers, Sequences, FiniteSets, TLC

VARIABLES
    settings,            \* self.settings: dt, integr_order, remove_predictor
    mesh,                \* per-surface grid sizes (data.aero.aero_dimensions*)
    linear,              \* data.aero.linear: "absent" or a dict (key -> value)
    timestep_info,       \* data.aero.timestep_info: retained snapshots
    velocity_generator,  \* self.velocity_generator: "None" or "ready"
    call,                \* the last operation: arguments, outcome, result
    nsteps,              \* operations performed so far
    nlinearised          \* times the linearisation branch was entered

vars == <<settings, mesh, linear, timestep_info, velocity_generator, call,
          nsteps, nlinearised>>

----------------------------------------------------------------------------
\* Bounds

\* run steps of one simulation
MaxSteps == 3
\* retained snapshots
MaxHist == 3
\* arrays of a snapshot replaced before a packing function is applied
MaxEdits == 2

----------------------------------------------------------------------------
\* python values

\* None and a present optional value
None == <<>>

Some(v) == <<v>>

\* a normal return and a raised exception
Ok(v) == [err |-> "", val |-> v]

Raise(e) == [err |-> e, val |-> <<>>]

----------------------------------------------------------------------------
\* numpy helpers

Min(a, b) == IF a < b THEN a ELSE b

RECURSIVE np_concatenate(_)
\* np.concatenate of a list of 1-d arrays
np_concatenate(vs) ==
    IF vs = <<>> THEN <<>> ELSE Head(vs) \o np_concatenate(Tail(vs))

\* a[...].reshape(-1, order='C') of a 2-d array: rows one after the other
ravel2(a) == np_concatenate(a)

\* a.reshape(-1, order='C') of a 3-d array: leading axis slowest
ravel3(a) == np_concatenate([c \in 1..Len(a) |-> ravel2(a[c])])

\* a.size
size2(a) == Len(ravel2(a))

size3(a) == Len(ravel3(a))

\* a.shape
shape2(a) == <<Len(a), IF Len(a) = 0 THEN 0 ELSE Len(a[1])>>

shape3(a) == <<Len(a)>> \o (IF Len(a) = 0 THEN <<0, 0>> ELSE shape2(a[1]))

\* v[lo:hi] (python slice: the upper end is clamped to the length)
slice(v, lo, hi) == SubSeq(v, lo + 1, Min(hi, Len(v)))

\* v.reshape((d1, d2), order='C'); numpy raises ValueError on a size mismatch
reshape2(v, dims) ==
    IF Len(v) # dims[1] * dims[2] THEN Raise("ValueError")
    ELSE Ok([i \in 1..dims[1] |-> [j \in 1..dims[2] |->
                v[(i - 1) * dims[2] + j]]])

\* v.reshape((d1, d2, d3), order='F'): the first axis fastest
reshape3_F(v, dims) ==
    IF Len(v) # dims[1] * dims[2] * dims[3] THEN Raise("ValueError")
    ELSE Ok([c \in 1..dims[1] |-> [i \in 1..dims[2] |-> [j \in 1..dims[3] |->
                v[((j - 1) * dims[2] + (i - 1)) * dims[1] + c]]]])

\* v.reshape((d1, d2, d3), order='C')
reshape3(v, dims) ==
    IF Len(v) # dims[1] * dims[2] * dims[3] THEN Raise("ValueError")
    ELSE Ok([c \in 1..dims[1] |-> [i \in 1..dims[2] |-> [j \in 1..dims[3] |->
                v[((c - 1) * dims[2] + (i - 1)) * dims[3] + j]]]])

\* np.zeros(dims) for a 3-d shape
np_zeros3(dims) ==
    [c \in 1..dims[1] |-> [i \in 1..dims[2] |-> [j \in 1..dims[3] |-> 0]]]

\* elementwise a + b and a - b of equally long vectors
vadd(a, b) == [k \in 1..Len(a) |-> a[k] + b[k]]

vsub(a, b) == [k \in 1..Len(a) |-> a[k] - b[k]]

\* dt * v, elementwise
dt_times(dt, v) == [k \in 1..Len(v) |-> (dt.num * v[k]) \div dt.den]

\* v / dt, elementwise
over_dt(dt, v) == [k \in 1..Len(v) |-> (v[k] * dt.den) \div dt.num]

----------------------------------------------------------------------------
\* StepLinearUVLM.pack_input_vector

\* pack_input_vector with the blocks zeta_dot, zeta, u_ext
pack_input_vector_swapped(aero_tstep) ==
    LET zeta == np_concatenate([i_surf \in 1..aero_tstep.n_surf |->
                                   ravel3(aero_tstep.zeta[i_surf])])
        zeta_dot == np_concatenate([i_surf \in 1..aero_tstep.n_surf |->
                                       ravel3(aero_tstep.zeta_dot[i_surf])])
        u_ext == np_concatenate([i_surf \in 1..aero_tstep.n_surf |->
                                    ravel3(aero_tstep.u_ext[i_surf])])
    IN  np_concatenate(<<zeta_dot, zeta, u_ext>>)

pack_input_vector(aero_tstep) ==
    LET zeta == np_concatenate([i_surf \in 1..aero_tstep.n_surf |->
                                   ravel3(aero_tstep.zeta[i_surf])])
        zeta_dot == np_concatenate([i_surf \in 1..aero_tstep.n_surf |->
                                       ravel3(aero_tstep.zeta_dot[i_surf])])
        u_ext == np_concatenate([i_surf \in 1..aero_tstep.n_surf |->
                                    ravel3(aero_tstep.u_ext[i_surf])])
    IN  np_concatenate(<<zeta, zeta_dot, u_ext>>)

\* pack_state_vector taking the previous circulation from aero_tstep
pack_state_vector_current(aero_tstep, aero_tstep_m1, dt, integr_order) ==
    LET gamma == np_concatenate([ss \in 1..aero_tstep.n_surf |->
                                    ravel2(aero_tstep.gamma[ss])])
        gamma_star == np_concatenate([ss \in 1..aero_tstep.n_surf |->
                                         ravel2(aero_tstep.gamma_star[ss])])
        gamma_dot == np_concatenate([ss \in 1..aero_tstep.n_surf |->
                                        ravel2(aero_tstep.gamma_dot[ss])])
        gamma_m1 ==
            IF integr_order = 1 THEN <<>>
            ELSE IF aero_tstep_m1 # None
                 THEN gamma
                 ELSE vsub(gamma, dt_times(dt, gamma_dot))
    IN  np_concatenate(<<gamma, gamma_star, dt_times(dt, gamma_dot), gamma_m1>>)

\* StepLinearUVLM.pack_state_vector; aero_tstep_m1 is None or Some(snapshot)
pack_state_vector(aero_tstep, aero_tstep_m1, dt, integr_order) ==
    LET gamma == np_concatenate([ss \in 1..aero_tstep.n_surf |->
                                    ravel2(aero_tstep.gamma[ss])])
        gamma_star == np_concatenate([ss \in 1..aero_tstep.n_surf |->
                                         ravel2(aero_tstep.gamma_star[ss])])
        gamma_dot == np_concatenate([ss \in 1..aero_tstep.n_surf |->
                                        ravel2(aero_tstep.gamma_dot[ss])])
        gamma_m1 ==
            IF integr_order = 1 THEN <<>>
            ELSE IF aero_tstep_m1 # None
                 THEN np_concatenate([ss \in 1..aero_tstep.n_surf |->
                                         ravel2(aero_tstep_m1[1].gamma[ss])])
                 ELSE vsub(gamma, dt_times(dt, gamma_dot))
    IN  np_concatenate(<<gamma, gamma_star, dt_times(dt, gamma_dot), gamma_m1>>)

\* the reference forces f_0 of initialise: forces[ss][0:3] of every surface
pack_forces(aero_tstep) ==
    np_concatenate([ss \in 1..aero_tstep.n_surf |->
                       ravel3(SubSeq(aero_tstep.forces[ss], 1, 3))])

----------------------------------------------------------------------------
\* The linear operator (linuvlm.Dynamic): assembled outside this solver

\* the rows x cols matrix g * E in sparse storage, E[r][k] = 1 where k is
\* congruent to r modulo rows
gain_matrix(g, rows, cols) == [g |-> g, rows |-> rows, cols |-> cols]

RECURSIVE dot(_, _, _)
\* a row of M times v: the sum of M.g * v[k] over the stored entries of the
\* row, which are at columns k, k + rows, k + 2 rows, ...
dot(M, v, k) ==
    IF k > M.cols THEN 0 ELSE M.g * v[k] + dot(M, v, k + M.rows)

\* M.dot(v); a shape mismatch raises ValueError
matvec(M, v) ==
    IF M.cols # Len(v) THEN Raise("ValueError")
    ELSE Ok([r \in 1..M.rows |-> dot(M, v, r)])

\* the gains of the assembled matrices A, B, C, D
OperatorGains ==
    { [a |-> 1, b |-> 1, c |-> 1, d |-> 0],
      [a |-> 0, b |-> 1, c |-> 1, d |-> 1] }

\* linuvlm.Dynamic(aero_tstep, dt, integr_order, ..., RemovePredictor, ...)
\* followed by assemble_ss(): K bound cells, K_star wake cells
Dynamic(aero_tstep, dt, integr_order, RemovePredictor, gains) ==
    LET K == Len(np_concatenate([ss \in 1..aero_tstep.n_surf |->
                                    ravel2(aero_tstep.gamma[ss])]))
        K_star == Len(np_concatenate([ss \in 1..aero_tstep.n_surf |->
                                         ravel2(aero_tstep.gamma_star[ss])]))
        nx == IF integr_order = 1 THEN 2 * K + K_star ELSE 3 * K + K_star
        nu == Len(pack_input_vector(aero_tstep))
        ny == Len(pack_forces(aero_tstep))
    IN  [K |-> K, K_star |-> K_star, dt |-> dt,
         integr_order |-> integr_order,
         remove_predictor |-> RemovePredictor,
         SS |-> [A |-> gain_matrix(gains.a, nx, nx),
                 B |-> gain_matrix(gains.b, nx, nu),
                 C |-> gain_matrix(gains.c, ny, nx),
                 D |-> gain_matrix(gains.d, ny, nu)]]

\* System.solve_step(dx_m1, du_m1, du_n, transform_state): the standard form
\* x[n] = A x[n-1] + B u[n], the predictor-removed form
\* h[n] = A h[n-1] + B u[n-1]; in both y[n] = C x[n] + D u[n]
solve_step(System, dx_m1, du_m1, du_n, transform_state) ==
    IF System.remove_predictor /\ du_m1 = None THEN Raise("MissingHistory")
    ELSE
    LET u_in == IF System.remove_predictor THEN du_m1[1] ELSE du_n
        Ax == matvec(System.SS.A, dx_m1)
        Bu == matvec(System.SS.B, u_in)
        Du == matvec(System.SS.D, du_n)
    IN  IF Ax.err # "" \/ Bu.err # "" \/ Du.err # ""
        THEN Raise("ValueError")
        ELSE LET dx_n == vadd(Ax.val, Bu.val)
                 Cx == matvec(System.SS.C, dx_n)
             IN  Ok([dx_n |-> dx_n, dy_n |-> vadd(Cx.val, Du.val)])

\* System.unpack_state(x_n, u_n): the circulation blocks of the state vector
unpack_state(System, x_n, u_n) ==
    LET K == System.K
        K_star == System.K_star
    IN  [gamma_vec |-> slice(x_n, 0, K),
         gamma_star_vec |-> slice(x_n, K, K + K_star),
         gamma_dot_vec |->
             over_dt(System.dt, slice(x_n, K + K_star, 2 * K + K_star))]

----------------------------------------------------------------------------
\* The grid (data.aero)

\* a surface of the grid: zeta is (3, M+1, N+1), gamma (M+1, N+1) and
\* gamma_star (M_star+1, N+1)
Surface(M, N, M_star) == [M |-> M, N |-> N, M_star |-> M_star]

dims_zeta(sf) == <<3, sf.M + 1, sf.N + 1>>

dims_forces(sf) == <<6, sf.M + 1, sf.N + 1>>

dims_gamma(sf) == <<sf.M + 1, sf.N + 1>>

dims_wake(sf) == <<sf.M_star + 1, sf.N + 1>>

\* data.aero.aero_dimensions and data.aero.aero_dimensions_star
aero_dimensions == [i_surf \in 1..Len(mesh) |-> dims_gamma(mesh[i_surf])]

aero_dimensions_star == [i_surf \in 1..Len(mesh) |-> dims_wake(mesh[i_surf])]

----------------------------------------------------------------------------
\* StepLinearUVLM.unpack_ss_vectors

\* the body of the loop over i_surf for one surface; worked holds
\* worked_points, worked_panels and worked_wake_panels; the result is the
\* four reshaped entries, or the ValueError of a failing reshape
unpack_surface(f_aero, st, aero_tstep, i_surf, worked) ==
    LET dimensions == shape3(aero_tstep.zeta[i_surf])
        dimensions_gamma == aero_dimensions[i_surf]
        dimensions_wake == aero_dimensions_star[i_surf]
        points_in_surface == size3(aero_tstep.zeta[i_surf])
        panels_in_surface == size2(aero_tstep.gamma[i_surf])
        panels_in_wake == size2(aero_tstep.gamma_star[i_surf])
        f == reshape3(slice(f_aero, worked.points,
                            worked.points + points_in_surface), dimensions)
        g == reshape2(slice(st.gamma_vec, worked.panels,
                            worked.panels + panels_in_surface),
                      dimensions_gamma)
        gd == reshape2(slice(st.gamma_dot_vec, worked.panels,
                             worked.panels + panels_in_surface),
                       dimensions_gamma)
        gs == reshape2(slice(st.gamma_star_vec, worked.wake_panels,
                             worked.wake_panels + panels_in_wake),
                       dimensions_wake)
    IN  IF f.err # "" \/ g.err # "" \/ gd.err # "" \/ gs.err # ""
        THEN Raise("ValueError")
        ELSE Ok([forces |-> f.val \o np_zeros3(dimensions),
                 gamma |-> g.val, gamma_dot |-> gd.val,
                 gamma_star |-> gs.val])

RECURSIVE unpack_loop(_, _, _, _, _, _)
\* for i_surf in range(aero_tstep.n_surf): ..., with the lists built so far
unpack_loop(f_aero, st, aero_tstep, i_surf, acc, worked) ==
    IF i_surf > aero_tstep.n_surf THEN Ok(acc)
    ELSE
    LET e == unpack_surface(f_aero, st, aero_tstep, i_surf, worked)
    IN  IF e.err # "" THEN e
        ELSE unpack_loop(f_aero, st, aero_tstep, i_surf + 1,
                 [forces |-> Append(acc.forces, e.val.forces),
                  gamma |-> Append(acc.gamma, e.val.gamma),
                  gamma_dot |-> Append(acc.gamma_dot, e.val.gamma_dot),
                  gamma_star |-> Append(acc.gamma_star, e.val.gamma_star)],
                 [points |->
                      worked.points + size3(aero_tstep.zeta[i_surf]),
                  panels |->
                      worked.panels + size2(aero_tstep.gamma[i_surf]),
                  wake_panels |->
                      worked.wake_panels
                          + size2(aero_tstep.gamma_star[i_surf])])

unpack_ss_vectors(y_n, x_n, u_n, aero_tstep, System) ==
    unpack_loop(y_n, unpack_state(System, x_n, u_n), aero_tstep, 1,
                [forces |-> <<>>, gamma |-> <<>>, gamma_dot |-> <<>>,
                 gamma_star |-> <<>>],
                [points |-> 0, panels |-> 0, wake_panels |-> 0])

----------------------------------------------------------------------------
\* Grids and snapshots (AeroTimeStepInfo)

\* a 3-d array whose cells are base+1, base+2, ... times step, all different
ramp3(dims, base, step) ==
    [c \in 1..dims[1] |-> [i \in 1..dims[2] |-> [j \in 1..dims[3] |->
        step * (base + ((c - 1) * dims[2] + (i - 1)) * dims[3] + j)]]]

ramp2(dims, base, step) ==
    [i \in 1..dims[1] |-> [j \in 1..dims[2] |->
        step * (base + (i - 1) * dims[2] + j)]]

\* a 3-d array with v in every cell
full3(dims, v) ==
    [c \in 1..dims[1] |-> [i \in 1..dims[2] |-> [j \in 1..dims[3] |-> v]]]

\* the time increments: 1 and 0.1
TimeIncrements == { [num |-> 1, den |-> 1], [num |-> 1, den |-> 10] }

\* a snapshot on grid m: every array all zero (grade 0), or every cell of
\* the snapshot different from its neighbours (grade 1); den is the grid of
\* the circulation rates
Snapshot(m, grade, den) ==
    [n_surf |-> Len(m),
     rho |-> 0,
     zeta |-> [s \in 1..Len(m) |-> ramp3(dims_zeta(m[s]), 100 * s, grade)],
     zeta_dot |->
         [s \in 1..Len(m) |-> ramp3(dims_zeta(m[s]), 100 * s + 30, grade)],
     u_ext |->
         [s \in 1..Len(m) |-> ramp3(dims_zeta(m[s]), 100 * s + 60, grade)],
     gamma |-> [s \in 1..Len(m) |-> ramp2(dims_gamma(m[s]), 10 * s, grade)],
     gamma_dot |->
         [s \in 1..Len(m) |-> ramp2(dims_gamma(m[s]), 5 * s, grade * den)],
     gamma_star |->
         [s \in 1..Len(m) |-> ramp2(dims_wake(m[s]), 10 * s + 5, grade)],
     forces |->
         [s \in 1..Len(m) |-> ramp3(dims_forces(m[s]), 50 * s, grade)]]

----------------------------------------------------------------------------
\* data.aero.linear

\* the operator before any linearisation
NoSystem ==
    [K |-> 0, K_star |-> 0, dt |-> [num |-> 1, den |-> 1], integr_order |-> 0,
     remove_predictor |-> FALSE,
     SS |-> [A |-> gain_matrix(0, 0, 0), B |-> gain_matrix(0, 0, 0),
             C |-> gain_matrix(0, 0, 0), D |-> gain_matrix(0, 0, 0)]]

\* data.aero has no attribute linear.  keys are the keys of the dict; the
\* value of 'SS' is the object System.SS
NoLinear ==
    [exists |-> FALSE, keys |-> {}, System |-> NoSystem,
     x_0 |-> <<>>, u_0 |-> <<>>, y_0 |-> <<>>]

\* self.data.aero.linear = dict()
EmptyDict == [NoLinear EXCEPT !.exists = TRUE]

\* self.settings['density'], in thousandths
density == 1225

\* timestep_info[-1] and timestep_info[-2]
last(ts) == ts[Len(ts)]

before_last(ts) == ts[Len(ts) - 1]

----------------------------------------------------------------------------
\* StepLinearUVLM.initialise

\* the except branch: the linearisation about timestep_info[-1].  ext names
\* the outside routine that raises ("" when none does), gains the matrices
\* the assembly returns
linearise(ext, gains) ==
    LET ts1 == [timestep_info EXCEPT ![Len(timestep_info)].rho = density]
        aero_tstep == last(ts1)
        lin_uvlm_system ==
            Dynamic(aero_tstep, settings.dt, settings.integr_order,
                    settings.remove_predictor, gains)
        u_0 == pack_input_vector(aero_tstep)
        x_0 == pack_state_vector(aero_tstep, None, settings.dt,
                                 settings.integr_order)
        f_0 == pack_forces(aero_tstep)
        stored == [exists |-> TRUE,
                   keys |-> {"System", "SS", "x_0", "u_0", "y_0"},
                   System |-> lin_uvlm_system,
                   x_0 |-> x_0, u_0 |-> u_0, y_0 |-> f_0]
    IN  IF ext = "Dynamic"
        THEN [err |-> "AssemblyError", linear |-> EmptyDict,
              timestep_info |-> ts1]
        ELSE IF ext = "assemble_ss"
        THEN [err |-> "AssemblyError", linear |-> EmptyDict,
              timestep_info |-> ts1]
        \* linear['gamma_0'] = gamma: the name gamma is not defined
        ELSE [err |-> "NameError", linear |-> stored, timestep_info |-> ts1]

\* initialise linearising whether or not data.aero.linear exists
initialise_again(ext, gains) ==
    LET r == linearise(ext, gains)
    IN  [err |-> r.err, linear |-> r.linear,
         timestep_info |-> r.timestep_info,
         velocity_generator |->
             IF r.err = "" THEN "ready" ELSE velocity_generator]

\* initialise(data): the state it leaves and the exception it ends with
initialise(ext, gains) ==
    IF linear.exists
    THEN [err |-> "", linear |-> linear, timestep_info |-> timestep_info,
          velocity_generator |-> "ready"]
    ELSE LET r == linearise(ext, gains)
         IN  [err |-> r.err, linear |-> r.linear,
              timestep_info |-> r.timestep_info,
              velocity_generator |->
                  IF r.err = "" THEN "ready" ELSE velocity_generator]

----------------------------------------------------------------------------
\* StepLinearUVLM.run

\* velocity_generator.generate(..., aero_tstep.u_ext): fills u_ext in place,
\* here with a uniform field of speed v
generate(aero_tstep, v) ==
    [aero_tstep EXCEPT !.u_ext =
        [s \in 1..aero_tstep.n_surf |-> full3(shape3(aero_tstep.zeta[s]), v)]]

\* the snapshot run works on: timestep_info[-1] itself when aero_tstep is
\* None, else the snapshot of the caller (a copy of the latest one, moved by
\* the structural solver)
current_tstep(explicit) ==
    IF explicit
    THEN [last(timestep_info) EXCEPT !.zeta =
             [s \in 1..Len(mesh) |-> full3(dims_zeta(mesh[s]), 1)]]
    ELSE last(timestep_info)

\* data.aero.timestep_info while run works: the current snapshot is an
\* element of the list only when run took it from there
retained(explicit, aero_tstep) ==
    IF explicit THEN timestep_info
    ELSE [timestep_info EXCEPT ![Len(timestep_info)] = aero_tstep]

\* no previous-step input is packed
previous_input_skipped(ts) == None

\* the previous-step input of the predictor-removed form (u_m1, du_m1)
previous_input(ts) ==
    IF settings.remove_predictor
    THEN Some(vsub(pack_input_vector(last(ts)), linear.u_0))
    ELSE None

\* the state at step n-1 (x_m1)
previous_state(aero_tstep, ts, dt, integr_order) ==
    IF Len(ts) < 2
    THEN pack_state_vector(aero_tstep, None, dt, integr_order)
    ELSE pack_state_vector(aero_tstep, Some(before_last(ts)), dt,
                           integr_order)

\* run up to the unpacking: the exception raised, the current snapshot with
\* its new u_ext, the vectors handed to solve_step and the unpacked result
run_solve(explicit, v) ==
    LET tstep0 == current_tstep(explicit)
        none == [err |-> "", aero_tstep |-> tstep0, u_n |-> <<>>, du_n |-> <<>>,
                 du_m1 |-> None, x_m1 |-> <<>>, dx_m1 |-> <<>>,
                 solved |-> None, unpacked |-> None]
    IN
    IF velocity_generator = "None" THEN [none EXCEPT !.err = "AttributeError"]
    ELSE
    LET aero_tstep == generate(tstep0, v)
        ts == retained(explicit, aero_tstep)
        gen == [none EXCEPT !.aero_tstep = aero_tstep]
    IN
    IF ~linear.exists THEN [gen EXCEPT !.err = "AttributeError"]
    ELSE IF "u_0" \notin linear.keys THEN [gen EXCEPT !.err = "KeyError"]
    ELSE
    LET dt == settings.dt
        integr_order == settings.integr_order
        u_n == pack_input_vector(aero_tstep)
        du_n == vsub(u_n, linear.u_0)
        du_m1 == previous_input(ts)
        x_m1 == previous_state(aero_tstep, ts, dt, integr_order)
        dx_m1 == vsub(x_m1, linear.x_0)
        packed == [gen EXCEPT !.u_n = u_n, !.du_n = du_n, !.du_m1 = du_m1,
                              !.x_m1 = x_m1, !.dx_m1 = dx_m1]
        step == solve_step(linear.System, dx_m1, du_m1, du_n, TRUE)
    IN
    IF step.err # "" THEN [packed EXCEPT !.err = step.err]
    ELSE
    LET x_n == vadd(linear.x_0, step.val.dx_n)
        y_n == vadd(linear.y_0, step.val.dy_n)
        un == unpack_ss_vectors(y_n, x_n, u_n, aero_tstep, linear.System)
    IN  IF un.err # ""
        THEN [packed EXCEPT !.err = un.err, !.solved = Some(step.val)]
        ELSE [packed EXCEPT !.err = "", !.solved = Some(step.val),
                            !.unpacked = Some(un.val)]

\* run adding the step to the stored reference state and output
run_moving_reference(explicit, v) ==
    LET r == run_solve(explicit, v)
        aero_tstep ==
            IF r.err # "" THEN r.aero_tstep
            ELSE [r.aero_tstep EXCEPT !.forces = r.unpacked[1].forces,
                                      !.gamma = r.unpacked[1].gamma,
                                      !.gamma_dot = r.unpacked[1].gamma_dot,
                                      !.gamma_star = r.unpacked[1].gamma_star]
    IN  [err |-> r.err, trace |-> r, aero_tstep |-> aero_tstep,
         linear |->
             IF r.err # "" THEN linear
             ELSE [linear EXCEPT
                      !.x_0 = vadd(linear.x_0, r.solved[1].dx_n),
                      !.y_0 = vadd(linear.y_0, r.solved[1].dy_n)],
         timestep_info |-> retained(explicit, aero_tstep)]

\* run writing the new circulation to the snapshot before the current one too
run_through_history(explicit, v) ==
    LET r == run_solve(explicit, v)
        aero_tstep ==
            IF r.err # "" THEN r.aero_tstep
            ELSE [r.aero_tstep EXCEPT !.forces = r.unpacked[1].forces,
                                      !.gamma = r.unpacked[1].gamma,
                                      !.gamma_dot = r.unpacked[1].gamma_dot,
                                      !.gamma_star = r.unpacked[1].gamma_star]
        ts == retained(explicit, aero_tstep)
    IN  [err |-> r.err, trace |-> r, aero_tstep |-> aero_tstep,
         linear |-> linear,
         timestep_info |->
             IF r.err = "" /\ Len(ts) >= 2
             THEN [ts EXCEPT ![Len(ts) - 1].gamma = aero_tstep.gamma]
             ELSE ts]

\* run: the fields written to the current snapshot and the data returned
run(explicit, v) ==
    LET r == run_solve(explicit, v)
        aero_tstep ==
            IF r.err # "" THEN r.aero_tstep
            ELSE [r.aero_tstep EXCEPT !.forces = r.unpacked[1].forces,
                                      !.gamma = r.unpacked[1].gamma,
                                      !.gamma_dot = r.unpacked[1].gamma_dot,
                                      !.gamma_star = r.unpacked[1].gamma_star]
    IN  [err |-> r.err, trace |-> r, aero_tstep |-> aero_tstep,
         linear |-> linear,
         timestep_info |-> retained(explicit, aero_tstep)]

\* data.aero.add_timestep(): a copy of the latest snapshot is appended
add_timestep(ts) == Append(ts, last(ts))

----------------------------------------------------------------------------
\* The solver in a simulation: initialise, run, add_step

\* the grids of the simulations
Meshes == { <<Surface(0, 0, 0)>>, <<Surface(0, 0, 0), Surface(0, 1, 0)>> }

\* the speeds of the uniform velocity fields
Speeds == {0, 1}

NoTrace ==
    [err |-> "", aero_tstep |-> Snapshot(<<>>, 0, 1), u_n |-> <<>>,
     du_n |-> <<>>, du_m1 |-> None, x_m1 |-> <<>>, dx_m1 |-> <<>>,
     solved |-> None, unpacked |-> None]

Idle ==
    [op |-> "", err |-> "", explicit |-> FALSE, fresh |-> FALSE, ext |-> "",
     prev |-> None, trace |-> NoTrace]

Init ==
    /\ mesh \in Meshes
    /\ settings \in [dt : {[num |-> 1, den |-> 10]}, integr_order : {1, 2},
                     remove_predictor : BOOLEAN]
    /\ timestep_info = <<Snapshot(mesh, 1, settings.dt.den)>>
    /\ linear = NoLinear
    /\ velocity_generator = "None"
    /\ call = Idle
    /\ nsteps = 0
    /\ nlinearised = 0

\* solver.initialise(data); the outside routines and the assembled gains
\* matter only when the linearisation is made and reaches them
Initialise ==
    \E ext \in {"", "Dynamic", "assemble_ss"}, gains \in OperatorGains :
        \E r \in {initialise(ext, gains)} :
            /\ (linear.exists \/ ext # "") =>
                   gains = [a |-> 1, b |-> 1, c |-> 1, d |-> 0]
            /\ linear.exists => ext = ""
            /\ linear' = r.linear
            /\ timestep_info' = r.timestep_info
            /\ velocity_generator' = r.velocity_generator
            /\ nlinearised' = IF linear.exists THEN nlinearised
                              ELSE nlinearised + 1
            /\ call' = [Idle EXCEPT !.op = "initialise", !.err = r.err,
                                    !.fresh = ~linear.exists,
                                    !.ext = IF linear.exists THEN "" ELSE ext]
            /\ UNCHANGED <<settings, mesh, nsteps>>

\* solver.run(aero_tstep, structure_tstep): with aero_tstep None, or with the
\* caller's own snapshot
Run ==
    /\ nsteps < MaxSteps
    /\ \E explicit \in BOOLEAN, v \in Speeds :
        \E r \in {run(explicit, v)} :
            /\ linear' = r.linear
            /\ timestep_info' = r.timestep_info
            /\ call' = [Idle EXCEPT
                   !.op = "run", !.err = r.err, !.explicit = explicit,
                   !.prev = IF explicit THEN Some(last(timestep_info))
                            ELSE IF Len(timestep_info) >= 2
                            THEN Some(before_last(timestep_info))
                            ELSE None,
                   !.trace = [r.trace EXCEPT !.aero_tstep = r.aero_tstep,
                                             !.unpacked = None]]
            /\ nsteps' = nsteps + 1
            /\ UNCHANGED <<settings, mesh, velocity_generator, nlinearised>>

\* solver.add_step(); what solve_step returned to a run step on the latest
\* retained snapshot stays on record when add_step follows that step
AddStep ==
    /\ Len(timestep_info) < MaxHist
    /\ timestep_info' = add_timestep(timestep_info)
    /\ call' = [Idle EXCEPT !.op = "add_step",
                   !.trace.solved =
                       IF call.op = "run" /\ ~call.explicit /\ call.err = ""
                       THEN call.trace.solved ELSE None]
    /\ UNCHANGED <<settings, mesh, linear, velocity_generator, nsteps,
                   nlinearised>>

Next == Initialise \/ Run \/ AddStep

Spec == Init /\ [][Next]_vars

----------------------------------------------------------------------------
\* The packing functions on their own: timestep_info holds a previous and a
\* current snapshot, arrays of which are replaced, and then one of the
\* functions is applied to them

PackMeshes ==
    { <<Surface(1, 1, 0)>>,
      <<Surface(0, 0, 0), Surface(0, 1, 0)>>,
      <<Surface(0, 1, 1), Surface(1, 0, 0)>> }

\* one surface, gamma = [[1,2],[3,4]], gamma_dot zero, gamma_star 1x2 zero
Scenario ==
    [Snapshot(<<Surface(1, 1, 0)>>, 0, 1) EXCEPT
        !.gamma = <<ramp2(<<2, 2>>, 0, 1)>>]

IntegrationOrders == 0..3

ArrayNames ==
    {"zeta", "zeta_dot", "u_ext", "gamma", "gamma_dot", "gamma_star", "forces"}

\* another array for field name of a surface
other_array(name, sf) ==
    CASE name \in {"zeta", "zeta_dot", "u_ext"} -> ramp3(dims_zeta(sf), 70, 1)
      [] name = "forces" -> ramp3(dims_forces(sf), 70, 1)
      [] name = "gamma" -> ramp2(dims_gamma(sf), 70, 1)
      [] name = "gamma_dot" -> ramp2(dims_gamma(sf), 7, 10)
      [] name = "gamma_star" -> ramp2(dims_wake(sf), 70, 1)

PackIdle ==
    [op |-> "", err |-> "", dt |-> [num |-> 1, den |-> 1], integr_order |-> 0,
     with_m1 |-> FALSE, y_n |-> <<>>, vec |-> <<>>, unpacked |-> None]

PackInit ==
    /\ \/ /\ mesh \in PackMeshes
          /\ timestep_info = <<Snapshot(mesh, 2, 10), Snapshot(mesh, 1, 10)>>
       \/ /\ mesh = <<Surface(1, 1, 0)>>
          /\ timestep_info = <<Snapshot(mesh, 2, 10), Scenario>>
    /\ settings = [dt |-> [num |-> 1, den |-> 10], integr_order |-> 2,
                   remove_predictor |-> FALSE]
    /\ linear = NoLinear
    /\ velocity_generator = "None"
    /\ call = PackIdle
    /\ nsteps = 0
    /\ nlinearised = 0

\* an array of one surface of the current snapshot, or the circulation of
\* one surface of the previous one, is replaced
EditArray ==
    /\ nsteps < MaxEdits
    /\ call = PackIdle
    /\ \E k \in 1..2, name \in ArrayNames, s \in 1..Len(mesh) :
           /\ k = 1 => name = "gamma"
           /\ timestep_info' = [timestep_info EXCEPT
                  ![k][name][s] = other_array(name, mesh[s])]
    /\ nsteps' = nsteps + 1
    /\ call' = PackIdle
    /\ UNCHANGED <<settings, mesh, linear, velocity_generator, nlinearised>>

\* u = pack_input_vector(aero_tstep)
PackInput ==
    /\ call = PackIdle
    /\ call' = [PackIdle EXCEPT !.op = "pack_input_vector",
                   !.vec = pack_input_vector(last(timestep_info))]
    /\ UNCHANGED <<settings, mesh, linear, timestep_info, velocity_generator,
                   nsteps, nlinearised>>

\* x = pack_state_vector(aero_tstep, aero_tstep_m1, dt, integr_order)
PackState ==
    /\ call = PackIdle
    /\ \E dt \in TimeIncrements, integr_order \in IntegrationOrders,
          with_m1 \in BOOLEAN :
           call' = [PackIdle EXCEPT !.op = "pack_state_vector",
               !.dt = dt, !.integr_order = integr_order, !.with_m1 = with_m1,
               !.vec = pack_state_vector(last(timestep_info),
                           IF with_m1 THEN Some(before_last(timestep_info))
                           ELSE None, dt, integr_order)]
    /\ UNCHANGED <<settings, mesh, linear, timestep_info, velocity_generator,
                   nsteps, nlinearised>>

\* the vector 1, 2, ..., n
iota(n) == [k \in 1..n |-> k]

\* unpack_ss_vectors(y_n, x_n, u_n, aero_tstep) with the state and the input
\* of the snapshot; y_n is either the packed forces of the snapshot or a
\* vector of extra elements more (fewer when negative) than the grid has
UnpackVectors ==
    /\ call = PackIdle
    /\ \E dt \in TimeIncrements, forces \in BOOLEAN, extra \in {-1, 0, 1} :
        LET aero_tstep == last(timestep_info)
            System == Dynamic(aero_tstep, dt, 2, FALSE,
                              [a |-> 0, b |-> 0, c |-> 0, d |-> 0])
            y_n == IF forces THEN pack_forces(aero_tstep)
                   ELSE iota(Len(pack_forces(aero_tstep)) + extra)
        IN  /\ forces => extra = 0
            /\ \E r \in {unpack_ss_vectors(y_n,
                            pack_state_vector(aero_tstep, None, dt, 2),
                            pack_input_vector(aero_tstep), aero_tstep,
                            System)} :
                  call' = [PackIdle EXCEPT
                      !.op = IF forces THEN "forces_round_trip"
                             ELSE "unpack_ss_vectors",
                      !.err = r.err, !.dt = dt, !.y_n = y_n,
                      !.unpacked = IF r.err = "" THEN Some(r.val) ELSE None]
    /\ UNCHANGED <<settings, mesh, linear, timestep_info, velocity_generator,
                   nsteps, nlinearised>>

PackNext == EditArray \/ PackInput \/ PackState \/ UnpackVectors

SpecPack == PackInit /\ [][PackNext]_vars

----------------------------------------------------------------------------
\* Properties of the packing functions (checked under SpecPack)

\* cells of a zeta-shaped array, of gamma and of gamma_star of surface sf
points(sf) == 3 * (sf.M + 1) * (sf.N + 1)

panels(sf) == (sf.M + 1) * (sf.N + 1)

wake_panels(sf) == (sf.M_star + 1) * (sf.N + 1)

RECURSIVE points_before(_)
\* cells of zeta-shaped arrays in the surfaces before surface s
points_before(s) ==
    IF s = 1 THEN 0 ELSE points_before(s - 1) + points(mesh[s - 1])

RECURSIVE panels_before(_)
panels_before(s) ==
    IF s = 1 THEN 0 ELSE panels_before(s - 1) + panels(mesh[s - 1])

RECURSIVE wake_before(_)
wake_before(s) ==
    IF s = 1 THEN 0 ELSE wake_before(s - 1) + wake_panels(mesh[s - 1])

TotalPoints == points_before(Len(mesh) + 1)

TotalPanels == panels_before(Len(mesh) + 1)

TotalWake == wake_before(Len(mesh) + 1)

\* vector v holds, from position off on, the 3-d arrays arr[s] of all
\* surfaces in surface order, each row-major with the first axis slowest
HoldsGrids(v, off, arr) ==
    \A s \in 1..Len(mesh) :
        \A c \in 1..3, i \in 1..(mesh[s].M + 1), j \in 1..(mesh[s].N + 1) :
            v[off + points_before(s)
                + ((c - 1) * (mesh[s].M + 1) + (i - 1)) * (mesh[s].N + 1) + j]
              = arr[s][c][i][j]

\* C2: pack_input_vector returns all zeta, then all zeta_dot, then all u_ext,
\* each block by increasing surface index and each (3, M+1, N+1) array
\* row-major with the component axis slowest; its length is the sum of the
\* sizes of the arrays
C2_PackInputLayout ==
    call.op = "pack_input_vector" =>
        LET aero_tstep == last(timestep_info)
        IN  /\ Len(call.vec) = 3 * TotalPoints
            /\ HoldsGrids(call.vec, 0, aero_tstep.zeta)
            /\ HoldsGrids(call.vec, TotalPoints, aero_tstep.zeta_dot)
            /\ HoldsGrids(call.vec, 2 * TotalPoints, aero_tstep.u_ext)

\* pack_input_vector applied to two ragged surfaces, one array replaced
C2_Witness ==
    /\ call.op = "pack_input_vector"
    /\ Len(mesh) = 2
    /\ mesh[1] # mesh[2]
    /\ nsteps = 1
    /\ last(timestep_info).zeta_dot # Snapshot(mesh, 1, 10).zeta_dot

\* vector v holds, from position off on, the 2-d bound arrays arr[s] of all
\* surfaces in surface order, row-major, every cell scaled by num / den
HoldsPanels(v, off, arr, num, den) ==
    \A s \in 1..Len(mesh) :
        \A i \in 1..(mesh[s].M + 1), j \in 1..(mesh[s].N + 1) :
            v[off + panels_before(s) + (i - 1) * (mesh[s].N + 1) + j] * den
              = arr[s][i][j] * num

HoldsWake(v, off, arr) ==
    \A s \in 1..Len(mesh) :
        \A i \in 1..(mesh[s].M_star + 1), j \in 1..(mesh[s].N + 1) :
            v[off + wake_before(s) + (i - 1) * (mesh[s].N + 1) + j]
              = arr[s][i][j]

\* the first three blocks of the state vector: gamma, gamma_star, dt*gamma_dot
HoldsState(x, aero_tstep, dt) ==
    /\ Len(x) >= 2 * TotalPanels + TotalWake
    /\ HoldsPanels(x, 0, aero_tstep.gamma, 1, 1)
    /\ HoldsWake(x, TotalPanels, aero_tstep.gamma_star)
    /\ HoldsPanels(x, TotalPanels + TotalWake, aero_tstep.gamma_dot,
                   dt.num, dt.den)

\* C3: pack_state_vector returns gamma, gamma_star, dt*gamma_dot and, only
\* when the integration order is 2, a previous-circulation block: the length
\* is P+W+P for order 1, P+W+2P for order 2, and for every order other than
\* 2 the block is absent
C3_StateLayout ==
    call.op = "pack_state_vector" =>
        /\ HoldsState(call.vec, last(timestep_info), call.dt)
        /\ Len(call.vec) = IF call.integr_order = 2
                           THEN 3 * TotalPanels + TotalWake
                           ELSE 2 * TotalPanels + TotalWake

\* the elementwise gamma - dt * gamma_dot of a snapshot, per surface
backward_estimate(aero_tstep, dt) ==
    [s \in 1..Len(mesh) |->
        [i \in 1..(mesh[s].M + 1) |-> [j \in 1..(mesh[s].N + 1) |->
            aero_tstep.gamma[s][i][j]
                - (dt.num * aero_tstep.gamma_dot[s][i][j]) \div dt.den]]]

\* C4: with integration order 2 the last block of pack_state_vector is the
\* previous snapshot's gamma when one is supplied and gamma - dt*gamma_dot
\* when none is; for one surface with gamma = [[1,2],[3,4]], gamma_dot zero,
\* a 1x2 zero gamma_star and dt = 0.1 the vector has length 14 and ends in
\* 1, 2, 3, 4
C4_PreviousCirculation ==
    (call.op = "pack_state_vector" /\ call.integr_order = 2) =>
        /\ Len(call.vec) = 3 * TotalPanels + TotalWake
        /\ call.with_m1 =>
               HoldsPanels(call.vec, 2 * TotalPanels + TotalWake,
                           before_last(timestep_info).gamma, 1, 1)
        /\ ~call.with_m1 =>
               HoldsPanels(call.vec, 2 * TotalPanels + TotalWake,
                   backward_estimate(last(timestep_info), call.dt), 1, 1)
        /\ (last(timestep_info) = Scenario /\ call.dt.den = 10
              /\ ~call.with_m1) =>
               /\ Len(call.vec) = 14
               /\ SubSeq(call.vec, 11, 14) = <<1, 2, 3, 4>>

\* pack_state_vector applied to the concrete scenario
C4_Witness ==
    /\ call.op = "pack_state_vector"
    /\ call.integr_order = 2
    /\ ~call.with_m1
    /\ call.dt = [num |-> 1, den |-> 10]
    /\ last(timestep_info) = Scenario

\* the first three rows of the unpacked forces of all surfaces, flattened
\* and concatenated: the elements of y_n the result holds
consumed(forces) ==
    np_concatenate([s \in 1..Len(forces) |-> ravel3(SubSeq(forces[s], 1, 3))])

\* C5: unpack_ss_vectors consumes every element of y_n exactly once and in
\* order, and fails when the length of y_n is not the sum of the per-surface
\* sizes of the template snapshot
C5_UnpackExact ==
    call.op = "unpack_ss_vectors" =>
        IF Len(call.y_n) = TotalPoints
        THEN /\ call.err = ""
             /\ consumed(call.unpacked[1].forces) = call.y_n
        ELSE call.err # ""

\* C6: flattening the first three rows of the forces of every surface and
\* unpacking the vector with the same template gives, per surface, a
\* 6 x (M+1) x (N+1) array whose first three rows are the original ones and
\* whose last three rows are zero
C6_ForcesRoundTrip ==
    call.op = "forces_round_trip" =>
        /\ call.err = ""
        /\ LET forces == call.unpacked[1].forces
               original == last(timestep_info).forces
           IN  /\ Len(forces) = Len(mesh)
               /\ \A s \in 1..Len(mesh) :
                      /\ shape3(forces[s]) = dims_forces(mesh[s])
                      /\ \A c \in 1..3, i \in 1..(mesh[s].M + 1),
                            j \in 1..(mesh[s].N + 1) :
                             /\ forces[s][c][i][j] = original[s][c][i][j]
                             /\ forces[s][c + 3][i][j] = 0

\* the round trip of two ragged surfaces whose last three rows are not zero
C6_Witness ==
    /\ call.op = "forces_round_trip"
    /\ call.err = ""
    /\ Len(mesh) = 2
    /\ mesh[1] # mesh[2]
    /\ last(timestep_info).forces[2][4][1][1] # 0

----------------------------------------------------------------------------
\* Properties of the solver in a simulation (checked under Spec)

\* data.aero.linear holds the operator and the reference triple
Linearised ==
    /\ linear.exists
    /\ {"System", "SS", "x_0", "u_0", "y_0"} \subseteq linear.keys

\* C1: initialise on a simulation without a linearisation, no outside
\* routine failing, stores operator and reference triple and completes
\* normally, with the velocity generator initialised
C1_InitialiseCompletes ==
    (call.op = "initialise" /\ call.fresh /\ call.ext = "") =>
        /\ call.err = ""
        /\ Linearised
        /\ velocity_generator = "ready"

\* run has packed its vectors and called solve_step
Stepped == call.op = "run" /\ call.trace.u_n # <<>>

\* C7: in the predictor-removed form the previous-step input delta handed to
\* solve_step is packed from the snapshot of step n-1, also when run takes
\* the latest retained snapshot as the current one; in the standard form no
\* previous-step input is packed
C7_PreviousInput ==
    Stepped =>
        IF settings.remove_predictor
        THEN call.prev # None =>
                 call.trace.du_m1
                     = Some(vsub(pack_input_vector(call.prev[1]), linear.u_0))
        ELSE call.trace.du_m1 = None

C9_ReferenceFixed ==
    [][Linearised =>
          /\ linear'.x_0 = linear.x_0
          /\ linear'.u_0 = linear.u_0
          /\ linear'.y_0 = linear.y_0
          /\ linear'.System = linear.System]_vars

\* run has overwritten u_ext, forces and circulations of the snapshot the
\* reference triple was packed from
C9_Witness ==
    /\ call.op = "run"
    /\ call.err = ""
    /\ ~call.explicit
    /\ Len(timestep_info) = 1
    /\ Linearised
    /\ pack_input_vector(timestep_info[1]) # linear.u_0
    /\ pack_forces(timestep_info[1]) # linear.y_0
    /\ pack_state_vector(timestep_info[1], None, settings.dt,
                         settings.integr_order) # linear.x_0

\* C10: the linearisation is made at most once, by the first initialise that
\* finds none; every later initialise leaves data.aero.linear as it is, and
\* every run step takes its deltas from the stored reference
C10_LinearisedOnce ==
    [][/\ nlinearised' <= 1
       /\ (call'.op = "initialise" /\ call'.fresh) =>
              /\ ~linear.exists
              /\ linear'.exists
              /\ call'.ext = "" => Linearised'
       /\ (call'.op = "initialise" /\ ~call'.fresh) =>
              /\ linear' = linear
              /\ nlinearised' = nlinearised
       /\ (call'.op = "run" /\ call'.err = "") =>
              /\ linear' = linear
              /\ call'.trace.du_n = vsub(call'.trace.u_n, linear.u_0)
              /\ call'.trace.dx_m1 = vsub(call'.trace.x_m1, linear.x_0)]_vars

\* initialise called again (a restart) after a run step has changed the
\* snapshot the linearisation was made about
C10_Witness ==
    /\ call.op = "initialise"
    /\ ~call.fresh
    /\ Linearised
    /\ nsteps > 0
    /\ pack_forces(timestep_info[1]) # linear.y_0

\* rows 4 to 6 of the forces of every surface are zero
MomentsZero(forces) ==
    \A s \in 1..Len(mesh) :
        \A c \in 4..6, i \in 1..(mesh[s].M + 1), j \in 1..(mesh[s].N + 1) :
            forces[s][c][i][j] = 0

\* the snapshot holds the unpacked values of the output y_n and the state x_n
HoldsUnpacked(aero_tstep, y_n, x_n, dt) ==
    /\ Len(aero_tstep.forces) = Len(mesh)
    /\ \A s \in 1..Len(mesh) :
           /\ shape3(aero_tstep.forces[s]) = dims_forces(mesh[s])
           /\ shape2(aero_tstep.gamma[s]) = dims_gamma(mesh[s])
           /\ shape2(aero_tstep.gamma_dot[s]) = dims_gamma(mesh[s])
           /\ shape2(aero_tstep.gamma_star[s]) = dims_wake(mesh[s])
    /\ HoldsGrids(y_n, 0, aero_tstep.forces)
    /\ MomentsZero(aero_tstep.forces)
    /\ HoldsState(x_n, aero_tstep, dt)

\* C11: a run step changes no retained snapshot other than the current one;
\* of the current snapshot zeta, zeta_dot, rho and the number of surfaces stay
\* as they were, u_ext is the field of the velocity generator, and forces,
\* gamma, gamma_dot and gamma_star are the unpacked values of y_0 + dy_n and
\* x_0 + dx_n (or, when the step raised, as they were)
C11_RunFrame ==
    [][call'.op = "run" =>
          LET n == Len(timestep_info)
              before == current_tstep(call'.explicit)
              after == call'.trace.aero_tstep
          IN  /\ Len(timestep_info') = n
              /\ \A k \in 1..(n - 1) : timestep_info'[k] = timestep_info[k]
              /\ timestep_info'[n] =
                     IF call'.explicit THEN timestep_info[n] ELSE after
              /\ after.zeta = before.zeta
              /\ after.zeta_dot = before.zeta_dot
              /\ after.rho = before.rho
              /\ after.n_surf = before.n_surf
              /\ IF velocity_generator = "None"
                 THEN after.u_ext = before.u_ext
                 ELSE \E v \in Speeds : after.u_ext = generate(before, v).u_ext
              /\ IF call'.err = ""
                 THEN HoldsUnpacked(after,
                          vadd(linear.y_0, call'.trace.solved[1].dy_n),
                          vadd(linear.x_0, call'.trace.solved[1].dx_n),
                          settings.dt)
                 ELSE /\ after.forces = before.forces
                      /\ after.gamma = before.gamma
                      /\ after.gamma_dot = before.gamma_dot
                      /\ after.gamma_star = before.gamma_star]_vars

\* run has replaced forces and circulations of the latest of two retained
\* snapshots, which was a copy of the one before it
C11_Witness ==
    /\ call.op = "run"
    /\ call.err = ""
    /\ ~call.explicit
    /\ Len(timestep_info) = 2
    /\ timestep_info[2].zeta = timestep_info[1].zeta
    /\ timestep_info[2].forces # timestep_info[1].forces
    /\ timestep_info[2].gamma # timestep_info[1].gamma
    /\ timestep_info[2] = call.trace.aero_tstep

\* the bound circulation of a snapshot, flattened as the state vector has it
flat_gamma(aero_tstep) ==
    np_concatenate([s \in 1..Len(mesh) |-> ravel2(aero_tstep.gamma[s])])

\* C12: with integration order 2, in initialise followed by repeated
\* (add_step, run on the latest retained snapshot), the state delta run packs
\* at a step equals the one solve_step returned at the step before: its
\* blocks gamma, gamma_star and dt*gamma_dot are those returned, and its
\* previous-circulation block, by the definition of the state vector the
\* circulation of the step before that of the other blocks, is the bound
\* circulation of two steps before less its reference
C12_StateContinuity ==
    [][(/\ call.op = "add_step"
        /\ call.trace.solved # None
        /\ call'.op = "run"
        /\ ~call'.explicit
        /\ call'.trace.u_n # <<>>
        /\ settings.integr_order = 2
        /\ Len(timestep_info) >= 3) =>
          LET P == TotalPanels
              W == TotalWake
              dx_n == call.trace.solved[1].dx_n
              dx_m1 == call'.trace.dx_m1
              two_before == timestep_info[Len(timestep_info) - 2]
          IN  /\ Len(dx_m1) = Len(dx_n)
              /\ SubSeq(dx_m1, 1, 2 * P + W) = SubSeq(dx_n, 1, 2 * P + W)
              /\ SubSeq(dx_m1, 2 * P + W + 1, 3 * P + W)
                     = vsub(flat_gamma(two_before),
                            SubSeq(linear.x_0, 2 * P + W + 1, 3 * P + W))]_vars

\* C13: in every reachable state, also after an initialise that raised part
\* of the way, a linearisation that exists (so that initialise skips the
\* linearisation) holds the operator and all of x_0, u_0 and y_0
C13_InitialisedComplete ==
    linear.exists => Linearised

====
